---- MODULE Spec2Model ----
(***************************************************************************)
(* Model of the retrieval pipeline of src/MainCode.py: the sentence-aware  *)
(* chunker (chunk_text_semantic), the vector index (VectorIndex), the      *)
(* shared application state (AppState) and the request handlers that       *)
(* mutate it (upload_files, update_configuration, clear_index).            *)
(*                                                                         *)
(* Strings are modelled by their whitespace-delimited word sequences: a    *)
(* text is a sequence of sentences (what re.split on sentence punctuation  *)
(* returns), a sentence is a non-empty sequence of words, and every word   *)
(* of a text is a distinct natural number (its position in the text), so   *)
(* that equalities between chunk contents are as discriminating as they    *)
(* can be.  " ".join is concatenation and str.split is the identity on     *)
(* word sequences, because no word contains whitespace.                    *)
(***************************************************************************)
EXTENDS Integers, Sequences, FiniteSets, TLC

\* ------------------------------------------------------------------------
\* Program constants (class Config)
\* ------------------------------------------------------------------------
max_chunk_tokens == 1000
min_chunk_tokens == 50
default_chunk_tokens == 450
default_overlap == 50
TinyWords == 5

\* ------------------------------------------------------------------------
\* Bounds of the model
\* ------------------------------------------------------------------------
MaxSentences == 3

NumRequests == 2
MaxBatch == 2
MaxIndexed == 2
\* most chunks in an index that is searched
MaxVectors == 4
\* most chunks in one direct add_chunks call
MaxAdded == 2

\* Optional[...] request fields: <<>> is None, <<v>> is the value v
None == <<>>

Some(v) == <<v>>

\* file names, embedding models and the inputs of the handlers
Files == {"a.md", "b.md"}
DefaultModel == "sentence-transformers/all-MiniLM-L6-v2"
ModelInputs == {None, Some("other-model")}
ChunkSizeInputs == {None, Some(10)}
OverlapTokensInputs == {None, Some(50)}

\* sentence lengths (in words) the chunker is run on
SentLens == {2, 4, 5, 20, 40, 49, 50, 51, 60}
\* raw chunk_tokens / overlap arguments, before clamping
ChunkTokenInputs == {0, 50, 2000}
OverlapInputs == {-1, 1, 25, 40}

\* ------------------------------------------------------------------------
\* Helpers: Python's min/max, slices and list comprehension
\* ------------------------------------------------------------------------
Min(a, b) == IF a <= b THEN a ELSE b

Max(a, b) == IF a >= b THEN a ELSE b

\* s[a:b] for 0 <= a, 0 <= b (0-based, end exclusive, clamped to len(s))
Slice(s, a, b) == SubSeq(s, a + 1, Min(b, Len(s)))

\* s[-n:] for n > 0: the last n elements, or all of s when it is shorter
LastN(s, n) == IF n >= Len(s) THEN s ELSE SubSeq(s, Len(s) - n + 1, Len(s))

\* s[:n]
FirstN(s, n) == SubSeq(s, 1, Min(n, Len(s)))

RECURSIVE SumLens(_, _)
SumLens(lens, k) == IF k = 0 THEN 0 ELSE lens[k] + SumLens(lens, k - 1)

\* the text whose k-th sentence has lens[k] words; words are numbered 1..n
TextOf(lens) ==
    [k \in 1..Len(lens) |-> [w \in 1..lens[k] |-> SumLens(lens, k - 1) + w]]

RECURSIVE Flatten(_)
Flatten(ss) == IF ss = <<>> THEN <<>> ELSE Head(ss) \o Flatten(Tail(ss))

\* ------------------------------------------------------------------------
\* chunk_text_semantic
\* ------------------------------------------------------------------------
\* line 1176
ClampChunkTokens(chunk_tokens) ==
    Max(min_chunk_tokens, Min(chunk_tokens, max_chunk_tokens))

\* a clamp of the overlap to the whole chunk size
ClampOverlapWhole(overlap, T) == Max(0, Min(overlap, T))

\* line 1177
ClampOverlap(overlap, T) == Max(0, Min(overlap, T \div 2))

\* a window loop that advances by the window size, ignoring the overlap
RECURSIVE WindowsNoOverlap(_, _, _, _)
WindowsNoOverlap(words, i, T, stride) ==
    IF i >= Len(words) THEN <<>>
    ELSE <<Slice(words, i, i + T)>> \o WindowsNoOverlap(words, i + T, T, stride)

\* lines 1197-1198: for i in range(i, len(words), stride): words[i:i+T]
RECURSIVE Windows(_, _, _, _)
Windows(words, i, T, stride) ==
    IF i >= Len(words) THEN <<>>
    ELSE <<Slice(words, i, i + T)>> \o Windows(words, i + stride, T, stride)

\* A chunk of the list `chunks` of chunk_text_semantic.  `words` is the
\* string; `path` and `sent` record which branch appended it and (for a
\* hard window) which sentence it was cut from.
MergeChunk(words) == [words |-> words, path |-> "merge", sent |-> 0]

WindowChunk(words, k) == [words |-> words, path |-> "window", sent |-> k]

TagWindows(ws, k) == [j \in 1..Len(ws) |-> WindowChunk(ws[j], k)]

\* a buffer test that already overflows at exactly T words
OverflowsAtLimit(cur, sentence, T) == Len(cur) + Len(sentence) >= T /\ cur # <<>>

\* the three branches of the loop body, lines 1191, 1201, 1209
IsLong(sentence, T) == Len(sentence) > T

Overflows(cur, sentence, T) == Len(cur) + Len(sentence) > T /\ cur # <<>>

\* a long-sentence step that forgets the pending buffer
HardWindowStepDropsBuffer(st, sentence, k, T, O) ==
    [chunks |-> st.chunks \o TagWindows(Windows(sentence, 0, T, T - O), k),
     cur |-> <<>>]

\* lines 1192-1199: a sentence longer than T
HardWindowStep(st, sentence, k, T, O) ==
    [chunks |-> (IF st.cur # <<>> THEN Append(st.chunks, MergeChunk(st.cur))
                 ELSE st.chunks)
                \o TagWindows(Windows(sentence, 0, T, T - O), k),
     cur |-> <<>>]

\* an emit step that takes the overlap from the head of the buffer
EmitStepFromHead(st, sentence, O) ==
    [chunks |-> Append(st.chunks, MergeChunk(st.cur)),
     cur |-> IF O > 0 THEN FirstN(st.cur, O) \o sentence ELSE sentence]

\* lines 1202-1208: emit the buffer, restart it from the overlap words
EmitStep(st, sentence, O) ==
    [chunks |-> Append(st.chunks, MergeChunk(st.cur)),
     cur |-> IF O > 0 THEN LastN(st.cur, O) \o sentence ELSE sentence]

\* line 1210
AppendStep(st, sentence) == [chunks |-> st.chunks, cur |-> st.cur \o sentence]

\* one iteration of the loop of lines 1186-1210 on sentence number k
ChunkStep(st, sentence, k, T, O) ==
    IF IsLong(sentence, T) THEN HardWindowStep(st, sentence, k, T, O)
    ELSE IF Overflows(st.cur, sentence, T) THEN EmitStep(st, sentence, O)
    ELSE AppendStep(st, sentence)

\* lines 1212-1213
FlushStep(st) ==
    IF st.cur # <<>> THEN Append(st.chunks, MergeChunk(st.cur)) ELSE st.chunks

\* a filter whose threshold is one word too low
KeepChunkFour(c) == Len(c.words) >= TinyWords - 1

\* line 1215: the tiny-chunk filter
KeepChunk(c) == Len(c.words) >= TinyWords

RECURSIVE FilterChunks(_)
FilterChunks(cs) ==
    IF cs = <<>> THEN <<>>
    ELSE (IF KeepChunk(Head(cs)) THEN <<Head(cs)>> ELSE <<>>)
         \o FilterChunks(Tail(cs))

RECURSIVE ChunkLoop(_, _, _, _, _)
ChunkLoop(st, text, k, T, O) ==
    IF k > Len(text) THEN st
    ELSE ChunkLoop(ChunkStep(st, text[k], k, T, O), text, k + 1, T, O)

\* the whole function, lines 1172-1215, on a text given as its sentences;
\* the empty sequence of sentences is the empty or whitespace-only text
chunk_text_semantic(text, chunk_tokens, overlap) ==
    IF text = <<>> THEN <<>>
    ELSE LET T == ClampChunkTokens(chunk_tokens)
             O == ClampOverlap(overlap, T)
             st == ChunkLoop([chunks |-> <<>>, cur |-> <<>>], text, 1, T, O)
             kept == FilterChunks(FlushStep(st))
         IN [j \in 1..Len(kept) |-> kept[j].words]

\* ------------------------------------------------------------------------
\* VectorIndex
\* ------------------------------------------------------------------------
Range(s) == {s[j] : j \in 1..Len(s)}

\* class Chunk: text (its words) and metadata (source, page)
Chunk(words, source, page) ==
    [text |-> words, metadata |-> [source |-> source, page |-> page]]

\* self._norm(self.embedder.encode(text)): the vector of a text under a
\* model, a deterministic function of both
Embed(model_name, words) == [model |-> model_name, of |-> words]

\* VectorIndex.__init__, on success: an empty index bound to model_name
NewIndex(model_name) == [model_name |-> model_name, index |-> <<>>, chunks |-> <<>>]

\* c.text.strip() is non-empty
NonBlank(c) == c.text # <<>>

\* an add_chunks that extends self.chunks before it embeds
AddChunksExtendFirst(vi, chunks, encodeOK) ==
    LET kept == SelectSeq(chunks, NonBlank)
        vecs == [j \in 1..Len(kept) |-> Embed(vi.model_name, kept[j].text)]
    IN IF chunks = <<>> \/ kept = <<>> THEN [vindex |-> vi, ok |-> FALSE]
       ELSE IF ~encodeOK
            THEN [vindex |-> [vi EXCEPT !.chunks = @ \o kept], ok |-> FALSE]
       ELSE [vindex |-> [vi EXCEPT !.index = @ \o vecs, !.chunks = @ \o kept],
             ok |-> TRUE]

\* VectorIndex.add_chunks, lines 1234-1260: the index afterwards and the
\* returned boolean; encodeOK is whether self.embedder.encode returns
\* (TRUE) or raises (FALSE)
\* an add_chunks that stores only the first chunk of a batch
AddChunksFirstOnly(vi, chunks, encodeOK) ==
    LET kept == FirstN(SelectSeq(chunks, NonBlank), 1)
        vecs == [j \in 1..Len(kept) |-> Embed(vi.model_name, kept[j].text)]
    IN IF chunks = <<>> \/ kept = <<>> \/ ~encodeOK
       THEN [vindex |-> vi, ok |-> FALSE]
       ELSE [vindex |-> [vi EXCEPT !.index = @ \o vecs, !.chunks = @ \o kept],
             ok |-> TRUE]

\* an add_chunks that puts the new chunks in front of the stored ones
AddChunksInFront(vi, chunks, encodeOK) ==
    LET kept == SelectSeq(chunks, NonBlank)
        vecs == [j \in 1..Len(kept) |-> Embed(vi.model_name, kept[j].text)]
    IN IF chunks = <<>> \/ kept = <<>> \/ ~encodeOK
       THEN [vindex |-> vi, ok |-> FALSE]
       ELSE [vindex |-> [vi EXCEPT !.index = vecs \o @, !.chunks = kept \o @],
             ok |-> TRUE]

AddChunksKeepBlank(vi, chunks, encodeOK) ==
    LET kept == SelectSeq(chunks, NonBlank)
        vecs == [j \in 1..Len(kept) |-> Embed(vi.model_name, kept[j].text)]
    IN IF chunks = <<>> \/ kept = <<>> \/ ~encodeOK
       THEN [vindex |-> vi, ok |-> FALSE]
       ELSE [vindex |-> [vi EXCEPT !.index = @ \o vecs, !.chunks = @ \o chunks],
             ok |-> TRUE]

add_chunks(vi, chunks, encodeOK) ==
    LET kept == SelectSeq(chunks, NonBlank)
        vecs == [j \in 1..Len(kept) |-> Embed(vi.model_name, kept[j].text)]
    IN IF chunks = <<>> \/ kept = <<>> \/ ~encodeOK
       THEN [vindex |-> vi, ok |-> FALSE]
       ELSE [vindex |-> [vi EXCEPT !.index = @ \o vecs, !.chunks = @ \o kept],
             ok |-> TRUE]

\* the inner product of two unit vectors, as faiss computes it: a
\* deterministic function of the two texts and of the model, equal for
\* equal texts (here the number of words the two texts share)
Sim(q, v) ==
    IF q.model = v.model THEN Cardinality(Range(q.of) \cap Range(v.of)) ELSE 0

\* an index that returns any kk vectors in any order
FaissSearchUnranked(index, q, kk) ==
    LET n == Len(index)
        m == Min(kk, n)
        any == {I \in [1..m -> 1..n] : \A a, b \in 1..m : a < b => I[a] # I[b]}
    IN {[j \in 1..kk |-> IF j <= m THEN I[j] ELSE -1] : I \in any}

\* faiss.IndexFlatIP.search(q, kk), line 1268, for kk >= 1: the labels I of
\* the kk best vectors by descending inner product, padded with -1 when the
\* index holds fewer than kk.  faiss fixes no order among equal scores, so
\* this is the set of answers it can give.
FaissSearch(index, q, kk) ==
    LET n == Len(index)
        m == Min(kk, n)
        best == {I \in [1..m -> 1..n] :
                    /\ \A a, b \in 1..m : a < b =>
                          I[a] # I[b] /\ Sim(q, index[I[a]]) >= Sim(q, index[I[b]])
                    /\ \A a \in 1..m, i \in 1..n :
                          (\A b \in 1..m : I[b] # i) =>
                              Sim(q, index[I[a]]) >= Sim(q, index[i])}
    IN {[j \in 1..kk |-> IF j <= m THEN I[j] ELSE -1] : I \in best}

\* what search asks faiss for, line 1268
SearchDepth(vi, k) == Min(k, Len(vi.index))

\* the (chunk, score) pairs of lines 1270-1274 for labels I; `pos` records
\* the index position a pair was read from
Pairs(vi, q, I) ==
    LET kept == SelectSeq(I, LAMBDA idx : idx # -1)
    IN [j \in 1..Len(kept) |->
          [chunk |-> vi.chunks[kept[j]], score |-> Sim(q, vi.index[kept[j]]),
           pos |-> kept[j]]]

\* a search that lets an embedder error escape
SearchUncaught(vi, query, k, encodeOK, I) ==
    IF query = <<>> \/ Len(vi.index) = 0 THEN [results |-> <<>>, raised |-> FALSE]
    ELSE IF ~encodeOK THEN [results |-> <<>>, raised |-> TRUE]
    ELSE IF SearchDepth(vi, k) <= 0 THEN [results |-> <<>>, raised |-> FALSE]
    ELSE [results |-> Pairs(vi, Embed(vi.model_name, query), I), raised |-> FALSE]

\* VectorIndex.search, lines 1262-1277: the returned list and whether an
\* exception leaves the method.  encodeOK is whether the embedder returns;
\* I is the answer of faiss (a member of FaissSearch, or <<>> when faiss is
\* not reached or rejects a depth below 1)
search(vi, query, k, encodeOK, I) ==
    IF query = <<>> \/ Len(vi.index) = 0 THEN [results |-> <<>>, raised |-> FALSE]
    ELSE IF ~encodeOK \/ SearchDepth(vi, k) <= 0
         THEN [results |-> <<>>, raised |-> FALSE]
    ELSE [results |-> Pairs(vi, Embed(vi.model_name, query), I), raised |-> FALSE]

\* the answers faiss can give to the call search makes
FaissAnswers(vi, query, k) ==
    IF query = <<>> \/ Len(vi.index) = 0 \/ SearchDepth(vi, k) <= 0 THEN {<<>>}
    ELSE FaissSearch(vi.index, Embed(vi.model_name, query), SearchDepth(vi, k))

\* a clear that forgets the chunks and keeps the vectors
ClearChunksOnly(vi) == [vi EXCEPT !.chunks = <<>>]

\* VectorIndex.clear, lines 1279-1285
clear(vi) == [vi EXCEPT !.index = <<>>, !.chunks = <<>>]

\* ------------------------------------------------------------------------
\* Answer assembly: build_prompt, generate_answer, get_chatgpt_answer
\* ------------------------------------------------------------------------
max_context_chars == 8000
\* contexts[:3] of line 1350
FallbackSnippets == 3
\* chunk.text[:300] of lines 1351 and 1478
SnippetChars == 300

\* len() of a text: model texts count one character per element
Chars(words) == Len(words)

\* lines 1311-1316: the citation of a chunk (model file names have four
\* characters and model pages one digit, so ", p.N" adds five)
Citation(chunk) == <<chunk.metadata.source, chunk.metadata.page>>
CitationChars(chunk) == 4 + 5

\* line 1317: the block of a chunk, "[Source: " + citation + "]\n" + text + "\n"
Block(chunk) == [citation |-> Citation(chunk), text |-> chunk.text]
BlockChars(block, chunk) == 9 + CitationChars(chunk) + 2 + Chars(block.text) + 1

\* a loop that stops at the budget even before the first block
KeepsBlockStrict(used_chars, chars, blocks, max_ctx_chars) ==
    ~(used_chars + chars > max_ctx_chars)

\* line 1319, negated: the loop goes on and keeps the block
KeepsBlock(used_chars, chars, blocks, max_ctx_chars) ==
    ~(used_chars + chars > max_ctx_chars /\ blocks # <<>>)

\* lines 1309-1322: the loop over contexts from position j
RECURSIVE PromptLoop(_, _, _, _, _)
PromptLoop(contexts, j, blocks, used_chars, max_ctx_chars) ==
    IF j > Len(contexts) THEN blocks
    ELSE LET block == Block(contexts[j].chunk)
             chars == BlockChars(block, contexts[j].chunk)
         IN IF KeepsBlock(used_chars, chars, blocks, max_ctx_chars)
            THEN PromptLoop(contexts, j + 1, Append(blocks, block),
                            used_chars + chars, max_ctx_chars)
            ELSE blocks

\* build_prompt, lines 1305-1325: the prompt as its kept blocks (joined by
\* "\n---\n" in the code) and the question
build_prompt(question, contexts, max_ctx_chars) ==
    [blocks |-> PromptLoop(contexts, 1, <<>>, 0, max_ctx_chars),
     question |-> question]

\* lines 1349-1352: the extractive answer, as its numbered snippets (the
\* relevance printed with each snippet is left out)
Fallback(contexts) ==
    LET top == FirstN(contexts, FallbackSnippets)
    IN [kind |-> "fallback",
        body |-> [j \in 1..Len(top) |->
                    [snippet |-> j,
                     text |-> FirstN(top[j].chunk.text, SnippetChars)]]]

\* a generate_answer that lets a failed LLM call escape
GenerateAnswerUncaught(question, contexts, hasKey, llmOK) ==
    IF contexts = <<>>
    THEN [answer |-> [kind |-> "no-information", body |-> <<>>],
          llm_calls |-> 0, raised |-> FALSE]
    ELSE IF hasKey /\ llmOK
    THEN [answer |-> [kind |-> "llm",
                      body |-> build_prompt(question, contexts, max_context_chars)],
          llm_calls |-> 1, raised |-> FALSE]
    ELSE IF hasKey
    THEN [answer |-> [kind |-> "none", body |-> <<>>],
          llm_calls |-> 1, raised |-> TRUE]
    ELSE [answer |-> Fallback(contexts), llm_calls |-> 0, raised |-> FALSE]

\* generate_answer, lines 1327-1352.  hasKey is line 1333's condition (the
\* client library is installed and OPENAI_API_KEY is set); llmOK is whether
\* the one completion call returns.  An LLM answer is a function of the
\* prompt it was given.
generate_answer(question, contexts, hasKey, llmOK) ==
    IF contexts = <<>>
    THEN [answer |-> [kind |-> "no-information", body |-> <<>>],
          llm_calls |-> 0, raised |-> FALSE]
    ELSE IF hasKey /\ llmOK
    THEN [answer |-> [kind |-> "llm",
                      body |-> build_prompt(question, contexts, max_context_chars)],
          llm_calls |-> 1, raised |-> FALSE]
    ELSE [answer |-> Fallback(contexts),
          llm_calls |-> IF hasKey THEN 1 ELSE 0, raised |-> FALSE]

\* get_chatgpt_answer, lines 1354-1372: None without a key or on failure
get_chatgpt_answer(question, hasKey, chatOK) ==
    IF hasKey /\ chatOK THEN Some([kind |-> "chat", body |-> question]) ELSE None

\* ------------------------------------------------------------------------
\* query_documents and get_status
\* ------------------------------------------------------------------------
\* the HTTPException of lines 1464 and 1467
QueryError(detail) ==
    [status |-> 400, detail |-> detail, documents_answer |-> None,
     sources |-> None, chatgpt_answer |-> None, llm_calls |-> 0, searched |-> FALSE]

\* lines 1476-1483: what the response shows of each result
Sources(results) ==
    [j \in 1..Len(results) |->
        [text |-> FirstN(results[j].chunk.text, SnippetChars),
         metadata |-> results[j].chunk.metadata,
         relevance |-> results[j].score]]

\* the response to a request with a non-blank question on a bound index,
\* given the search results and what generate_answer made of them
QueryResponse(request, results, gen, chatgpt_answer) ==
    LET docs == request.mode \in {"documents", "compare"}
        chat == request.mode \in {"chatgpt", "compare"}
    IN IF docs /\ results # <<>> /\ gen.raised
       THEN [status |-> 500, detail |-> "Internal Server Error",
             documents_answer |-> None, sources |-> None, chatgpt_answer |-> None,
             llm_calls |-> gen.llm_calls, searched |-> TRUE]
       ELSE [status |-> 200, detail |-> "",
             documents_answer |->
                IF ~docs THEN None
                ELSE IF results # <<>> THEN Some(gen.answer)
                ELSE Some([kind |-> "no-relevant-documents", body |-> <<>>]),
             sources |-> IF docs THEN Some(Sources(results)) ELSE None,
             chatgpt_answer |->
                IF ~chat THEN None
                ELSE IF chatgpt_answer # None THEN chatgpt_answer
                ELSE Some([kind |-> "chat-failed", body |-> <<>>]),
             llm_calls |-> IF docs /\ results # <<>> THEN gen.llm_calls ELSE 0,
             searched |-> docs]

\* a handler that hands empty results to generate_answer as well
QueryDocumentsAlwaysGenerate(state, request, encodeOK, I, hasKey, llmOK, chatOK) ==
    IF state.vindex = None THEN QueryError("No vector index initialized")
    ELSE IF request.question = <<>> THEN QueryError("Question cannot be empty")
    ELSE LET results == IF request.mode \in {"documents", "compare"}
                        THEN search(state.vindex[1], request.question,
                                    request.top_k, encodeOK, I).results
                        ELSE <<>>
             gen == generate_answer(request.question, results, hasKey, llmOK)
             response == QueryResponse(request, results, gen,
                             get_chatgpt_answer(request.question, hasKey, chatOK))
         IN IF request.mode \in {"documents", "compare"}
            THEN [response EXCEPT !.documents_answer = Some(gen.answer),
                                  !.llm_calls = gen.llm_calls]
            ELSE response

\* query_documents, lines 1461-1497, on the AppState record state: the
\* response, the number of completion calls made for the documents answer
\* and whether the index was searched.  encodeOK and I are the inputs of
\* search; hasKey, llmOK and chatOK those of the two answer functions.  An
\* exception leaving generate_answer would leave the handler too (HTTP 500).
query_documents(state, request, encodeOK, I, hasKey, llmOK, chatOK) ==
    IF state.vindex = None THEN QueryError("No vector index initialized")
    ELSE IF request.question = <<>> THEN QueryError("Question cannot be empty")
    ELSE LET results == IF request.mode \in {"documents", "compare"}
                        THEN search(state.vindex[1], request.question,
                                    request.top_k, encodeOK, I).results
                        ELSE <<>>
         IN QueryResponse(request, results,
                          generate_answer(request.question, results, hasKey, llmOK),
                          get_chatgpt_answer(request.question, hasKey, chatOK))

\* lines 1527-1532: the current_config that update_configuration returns
current_config(state, hasKey) ==
    [chunk_size |-> state.chunk_tokens,
     overlap_tokens |-> state.overlap,
     has_api_key |-> hasKey,
     embedding_model |-> IF state.vindex # None
                         THEN Some(state.vindex[1].model_name) ELSE None]

\* get_status, lines 1390-1405, on the AppState record state
get_status(state) ==
    [documents_loaded |-> Len(state.ingested_sources),
     chunks_indexed |-> IF state.vindex # None THEN Len(state.vindex[1].index) ELSE 0,
     documents_status |-> IF Len(state.ingested_sources) > 0 THEN "ready" ELSE "no_docs",
     loaded_sources |-> state.ingested_sources]

\* ------------------------------------------------------------------------
\* upload_files: the parts of the loop body that compute
\* ------------------------------------------------------------------------
\* what the parsers return for a file: its pages, already cleaned, as texts
\* (no page for an unsupported suffix, an unreadable file or an empty one)
Docs ==
    {<<>>,
     <<TextOf(<<4>>)>>,
     <<TextOf(<<6>>)>>,
     <<TextOf(<<30, 30>>)>>}

\* lines 1438-1443: every page chunked with the current settings, each
\* piece wrapped as a Chunk carrying the page's metadata
RECURSIVE FineChunks(_, _, _, _, _)
FineChunks(pages, p, source, chunk_tokens, overlap) ==
    IF p > Len(pages) THEN <<>>
    ELSE LET texts == chunk_text_semantic(pages[p], chunk_tokens, overlap)
         IN [j \in 1..Len(texts) |-> Chunk(texts[j], source, p)]
            \o FineChunks(pages, p + 1, source, chunk_tokens, overlap)

\* a loop that never skips a file
AdvanceNoSkip(files, i, ingested_sources) == Min(i, Len(files) + 1)

\* lines 1418-1420: the position of the first file at or after i that is not
\* in ingested_sources, Len(files) + 1 if there is none
RECURSIVE Advance(_, _, _)
Advance(files, i, ingested_sources) ==
    IF i > Len(files) THEN i
    ELSE IF files[i] \in Range(ingested_sources)
         THEN Advance(files, i + 1, ingested_sources)
    ELSE i

\* a loop that registers no file
RegisterNever(ingested_sources, filename, ok) == ingested_sources

\* a registration that does not look at what add_chunks returned
RegisterAlways(ingested_sources, filename, ok) == Append(ingested_sources, filename)

\* lines 1445-1446
Register(ingested_sources, filename, ok) ==
    IF ok THEN Append(ingested_sources, filename) ELSE ingested_sources

\* ------------------------------------------------------------------------
\* State
\* ------------------------------------------------------------------------
VARIABLES
    \* the global app_state (class AppState): vindex, ingested_sources,
    \* chunk_tokens, overlap; vindex is None or a VectorIndex
    app_state,
    \* the upload_files requests in flight: position and locals of each
    upload,
    \* history: per request, whether it started after another upload of the
    \* same files had run to its end, with no clear or model switch since
    repeat,
    \* one call of chunk_text_semantic, run sentence by sentence
    text,            \* the argument text, as its sentences
    chunk_tokens,    \* the argument chunk_tokens, before clamping
    overlap,         \* the argument overlap, before clamping
    k,               \* number of the sentence the loop is at
    loop,            \* the locals chunks and current_chunk
    result,          \* the returned list
    pc,              \* "idle" | "loop" | "done"
    \* what the last call made by a single caller returned: the operation,
    \* its arguments and its result
    out

appVars == <<app_state, upload, repeat>>

chunkVars == <<text, chunk_tokens, overlap, k, loop, result, pc>>

callVars == <<out>>

vars == <<appVars, chunkVars, callVars>>

Requests == 1..NumRequests

\* a request slot with no upload_files call in it
IdleUpload ==
    [pc |-> "idle", files |-> <<>>, i |-> 1, processed_files |-> <<>>,
     total_new_chunks |-> 0]

\* class AppState, lines 1288-1293
AppInit ==
    /\ app_state = [vindex |-> None, ingested_sources |-> <<>>,
                    chunk_tokens |-> default_chunk_tokens,
                    overlap |-> default_overlap]
    /\ upload = [r \in Requests |-> IdleUpload]
    /\ repeat = [r \in Requests |-> FALSE]

\* no call of chunk_text_semantic is being stepped
ChunkIdle ==
    /\ text = <<>> /\ chunk_tokens = 0 /\ overlap = 0 /\ k = 1
    /\ loop = [chunks |-> <<>>, cur |-> <<>>]
    /\ result = <<>>
    /\ pc = "idle"

\* no call has returned yet
NoCall == out = [op |-> "none"]

\* ------------------------------------------------------------------------
\* chunk_text_semantic, one loop iteration per step
\* ------------------------------------------------------------------------
RECURSIVE SeqsUpTo(_, _)
SeqsUpTo(S, n) ==
    IF n = 0 THEN {<<>>}
    ELSE LET shorter == SeqsUpTo(S, n - 1)
         IN shorter \cup {Append(s, x) : s \in {t \in shorter : Len(t) = n - 1}, x \in S}

T == ClampChunkTokens(chunk_tokens)

O == ClampOverlap(overlap, T)

ChunkInit ==
    /\ AppInit
    /\ NoCall
    /\ text \in {TextOf(lens) : lens \in SeqsUpTo(SentLens, MaxSentences)}
    /\ chunk_tokens \in ChunkTokenInputs
    /\ overlap \in OverlapInputs
    /\ k = 1
    /\ loop = [chunks |-> <<>>, cur |-> <<>>]
    /\ result = <<>>
    /\ pc = "loop"

\* lines 1173-1174
ReturnEmpty ==
    /\ pc = "loop"
    /\ text = <<>>
    /\ result' = <<>>
    /\ pc' = "done"
    /\ UNCHANGED <<text, chunk_tokens, overlap, k, loop>>

Iterate ==
    /\ k' = k + 1
    /\ loop' = ChunkStep(loop, text[k], k, T, O)
    /\ UNCHANGED <<text, chunk_tokens, overlap, result, pc>>

\* lines 1191-1199
HardWindow ==
    /\ pc = "loop" /\ k <= Len(text)
    /\ IsLong(text[k], T)
    /\ Iterate

\* lines 1201-1206
EmitOverlap ==
    /\ pc = "loop" /\ k <= Len(text)
    /\ ~IsLong(text[k], T) /\ Overflows(loop.cur, text[k], T) /\ O > 0
    /\ Iterate

\* lines 1201-1202, 1207-1208
EmitFresh ==
    /\ pc = "loop" /\ k <= Len(text)
    /\ ~IsLong(text[k], T) /\ Overflows(loop.cur, text[k], T) /\ O = 0
    /\ Iterate

\* lines 1209-1210
AppendSentence ==
    /\ pc = "loop" /\ k <= Len(text)
    /\ ~IsLong(text[k], T) /\ ~Overflows(loop.cur, text[k], T)
    /\ Iterate

\* lines 1212-1215
Finish ==
    /\ pc = "loop" /\ text # <<>> /\ k > Len(text)
    /\ result' = FilterChunks(FlushStep(loop))
    /\ pc' = "done"
    /\ UNCHANGED <<text, chunk_tokens, overlap, k, loop>>

ChunkNext ==
    \/ ReturnEmpty /\ UNCHANGED <<appVars, callVars>>
    \/ HardWindow /\ UNCHANGED <<appVars, callVars>>
    \/ EmitOverlap /\ UNCHANGED <<appVars, callVars>>
    \/ EmitFresh /\ UNCHANGED <<appVars, callVars>>
    \/ AppendSentence /\ UNCHANGED <<appVars, callVars>>
    \/ Finish /\ UNCHANGED <<appVars, callVars>>

SpecChunk == ChunkInit /\ [][ChunkNext]_vars

\* arguments below, at and above the allowed ranges, negative ones included
WideChunkTokenInputs == {-7, 0, 50, 2000}

WideOverlapInputs == {-1, 0, 25, 2000}

WideChunkInit ==
    /\ AppInit
    /\ NoCall
    /\ text \in {TextOf(lens) : lens \in SeqsUpTo(SentLens, MaxSentences)}
    /\ chunk_tokens \in WideChunkTokenInputs
    /\ overlap \in WideOverlapInputs
    /\ k = 1
    /\ loop = [chunks |-> <<>>, cur |-> <<>>]
    /\ result = <<>>
    /\ pc = "loop"

\* the call runs without suspension: a step that can be taken is taken
SpecChunkLive == WideChunkInit /\ [][ChunkNext]_vars /\ WF_vars(ChunkNext)

\* the list the call returns: the strings of result
Returned == [j \in 1..Len(result) |-> result[j].words]

\* ------------------------------------------------------------------------
\* The request handlers.  Each runs on the one event loop, so a handler is
\* atomic up to its next await; upload_files awaits file.read() once per
\* file (line 1423), the other handlers never await.
\* ------------------------------------------------------------------------
Batches == SeqsUpTo(Files, MaxBatch) \ {<<>>}

NoHistory == repeat' = [r \in Requests |-> FALSE]

\* another request has run upload_files on all of these files to its return
UploadedBefore(r, files) ==
    \E q \in Requests \ {r} :
        upload[q].pc = "done" /\ Range(files) \subseteq Range(upload[q].files)

\* upload_files, lines 1407-1423, from the call to the first await (or to
\* the return when every file is skipped); initOK is whether VectorIndex()
\* loads its model
UploadStart(r, files, initOK) ==
    /\ upload[r].pc = "idle"
    /\ (app_state.vindex # None => initOK)
    /\ IF app_state.vindex = None /\ ~initOK
       THEN /\ upload' = [upload EXCEPT ![r] =
                    [IdleUpload EXCEPT !.pc = "failed", !.files = files]]
            /\ UNCHANGED app_state
       ELSE LET j == Advance(files, 1, app_state.ingested_sources)
                finished == j > Len(files)
            IN /\ app_state' = [app_state EXCEPT !.vindex =
                        IF @ = None THEN Some(NewIndex(DefaultModel)) ELSE @]
               /\ upload' = [upload EXCEPT ![r] =
                        [IdleUpload EXCEPT !.pc = IF finished THEN "done" ELSE "reading",
                                           !.files = files, !.i = j]]
    /\ repeat' = [repeat EXCEPT ![r] = UploadedBefore(r, files)]

\* upload_files, lines 1423-1459, from the return of file.read() for file
\* number i to the next await or to the return; doc is what the parser makes
\* of the bytes, encodeOK whether the embedder returns
UploadResume(r, doc, encodeOK) ==
    /\ upload[r].pc = "reading"
    /\ LET u == upload[r]
           filename == u.files[u.i]
           vi == app_state.vindex[1]
           fine_chunks == FineChunks(doc, 1, filename, app_state.chunk_tokens,
                                     app_state.overlap)
           added == IF doc # <<>> THEN add_chunks(vi, fine_chunks, encodeOK)
                    ELSE [vindex |-> vi, ok |-> FALSE]
           sources == Register(app_state.ingested_sources, filename, added.ok)
           j == Advance(u.files, u.i + 1, sources)
           finished == j > Len(u.files)
       IN /\ Len(added.vindex.chunks) <= MaxIndexed
          /\ app_state' = [app_state EXCEPT !.vindex = Some(added.vindex),
                                            !.ingested_sources = sources]
          /\ upload' = [upload EXCEPT ![r] =
                [u EXCEPT !.pc = IF finished THEN "done" ELSE "reading",
                          !.i = j,
                          !.processed_files = IF added.ok THEN Append(@, filename) ELSE @,
                          !.total_new_chunks = IF added.ok THEN @ + Len(fine_chunks) ELSE @]]
    /\ UNCHANGED repeat

\* the response of a finished upload_files call has been sent
UploadReturn(r) ==
    /\ upload[r].pc \in {"done", "failed"}
    /\ upload' = [upload EXCEPT ![r] = IdleUpload]
    /\ repeat' = [repeat EXCEPT ![r] = FALSE]
    /\ UNCHANGED app_state

ConfigRequests ==
    [chunk_size : ChunkSizeInputs, overlap_tokens : OverlapTokensInputs,
     embedding_model : ModelInputs]

\* line 1516: the model name the request is compared with
BoundModel == IF app_state.vindex # None THEN Some(app_state.vindex[1].model_name) ELSE None

\* line 1516: the request names a model other than the bound one
Switches(request) ==
    request.embedding_model # None /\ request.embedding_model # BoundModel

\* lines 1521-1533: the status of the response, 400 for the HTTPException
ConfigureStatus(request, loadOK) ==
    IF Switches(request) /\ ~loadOK THEN 400 ELSE 200

\* a model switch that keeps the registry
UpdateConfigurationKeepSources(request, loadOK) ==
    LET ct == IF request.chunk_size # None
              THEN ClampChunkTokens(request.chunk_size[1])
              ELSE app_state.chunk_tokens
        ov == IF request.overlap_tokens # None
              THEN ClampOverlap(request.overlap_tokens[1], ct)
              ELSE app_state.overlap
    IN /\ (~Switches(request) => loadOK)
       /\ IF Switches(request) /\ loadOK
          THEN /\ app_state' = [app_state EXCEPT
                        !.vindex = Some(NewIndex(request.embedding_model[1])),
                        !.chunk_tokens = ct, !.overlap = ov]
               /\ NoHistory
               /\ UNCHANGED upload
          ELSE /\ app_state' = [app_state EXCEPT !.chunk_tokens = ct, !.overlap = ov]
               /\ UNCHANGED <<upload, repeat>>

\* a model switch that drops the old index before the new model has loaded
UpdateConfigurationDropFirst(request, loadOK) ==
    LET ct == IF request.chunk_size # None
              THEN ClampChunkTokens(request.chunk_size[1])
              ELSE app_state.chunk_tokens
        ov == IF request.overlap_tokens # None
              THEN ClampOverlap(request.overlap_tokens[1], ct)
              ELSE app_state.overlap
    IN /\ (~Switches(request) => loadOK)
       /\ IF Switches(request)
          THEN /\ app_state' = [vindex |-> IF loadOK
                                           THEN Some(NewIndex(request.embedding_model[1]))
                                           ELSE None,
                                ingested_sources |-> <<>>,
                                chunk_tokens |-> ct, overlap |-> ov]
               /\ NoHistory
               /\ UNCHANGED upload
          ELSE /\ app_state' = [app_state EXCEPT !.chunk_tokens = ct, !.overlap = ov]
               /\ UNCHANGED <<upload, repeat>>

\* update_configuration, lines 1499-1533; loadOK is whether the requested
\* embedding model loads
UpdateConfiguration(request, loadOK) ==
    LET ct == IF request.chunk_size # None
              THEN ClampChunkTokens(request.chunk_size[1])
              ELSE app_state.chunk_tokens
        ov == IF request.overlap_tokens # None
              THEN ClampOverlap(request.overlap_tokens[1], ct)
              ELSE app_state.overlap
        switch == request.embedding_model # None /\ request.embedding_model # BoundModel
    IN /\ (~switch => loadOK)
       /\ IF switch /\ loadOK
          THEN /\ app_state' = [vindex |-> Some(NewIndex(request.embedding_model[1])),
                                ingested_sources |-> <<>>,
                                chunk_tokens |-> ct, overlap |-> ov]
               /\ NoHistory
               /\ UNCHANGED upload
          ELSE /\ app_state' = [app_state EXCEPT !.chunk_tokens = ct, !.overlap = ov]
               /\ UNCHANGED <<upload, repeat>>

\* clear_index, lines 1535-1540
ClearIndex ==
    /\ app_state' = [app_state EXCEPT
            !.vindex = IF @ = None THEN None ELSE Some(clear(@[1])),
            !.ingested_sources = <<>>]
    /\ NoHistory
    /\ UNCHANGED upload

Init == AppInit /\ ChunkIdle /\ NoCall

Next ==
    \/ \E r \in Requests, files \in Batches, initOK \in BOOLEAN :
        UploadStart(r, files, initOK) /\ UNCHANGED <<chunkVars, callVars>>
    \/ \E r \in Requests, doc \in Docs, encodeOK \in BOOLEAN :
        UploadResume(r, doc, encodeOK) /\ UNCHANGED <<chunkVars, callVars>>
    \/ \E r \in Requests : UploadReturn(r) /\ UNCHANGED <<chunkVars, callVars>>
    \/ \E request \in ConfigRequests, loadOK \in BOOLEAN :
        UpdateConfiguration(request, loadOK) /\ UNCHANGED <<chunkVars, callVars>>
    \/ ClearIndex /\ UNCHANGED <<chunkVars, callVars>>

Spec == Init /\ [][Next]_vars

\* ------------------------------------------------------------------------
\* One caller using the index and the query handler: the VectorIndex
\* methods, query_documents and build_prompt, one whole call per step
\* ------------------------------------------------------------------------
\* chunks handed to add_chunks: two with the same text from different
\* files, a longer one, one sharing no word with the question, and one
\* with blank text
Pool ==
    {Chunk(<<1>>, "a.md", 1), Chunk(<<1>>, "b.md", 1),
     Chunk(<<1, 2>>, "a.md", 2), Chunk(<<3>>, "b.md", 2),
     Chunk(<<>>, "a.md", 3)}

\* each chunk with text is handed over once
Fresh(vi, chunks) ==
    /\ \A c \in Range(chunks) : NonBlank(c) => c \notin Range(vi.chunks)
    /\ \A a, b \in 1..Len(chunks) :
          a < b /\ NonBlank(chunks[a]) => chunks[a] # chunks[b]

\* query texts: blank, and one scoring 1, 1, 2 and 0 against the texts
Questions == {<<>>, <<1, 2>>}

KInputs == {-1, 2, 5}

Modes == {"documents", "chatgpt", "compare"}

\* class QueryRequest, lines 1084-1087; top_k at its default
QueryRequests == [question : Questions, mode : Modes, top_k : {5}]

\* budgets below one model block (22 or 23 characters), for one, for two,
\* and the default
BudgetInputs == {10, 23, 45, max_context_chars}

\* VectorIndex(), as upload_files constructs it at line 1411
NewVectorIndex ==
    /\ app_state.vindex = None
    /\ app_state' = [app_state EXCEPT !.vindex = Some(NewIndex(DefaultModel))]
    /\ out' = [op |-> "init"]

\* one call of VectorIndex.add_chunks
AddChunks(chunks, encodeOK) ==
    /\ app_state.vindex # None
    /\ Fresh(app_state.vindex[1], chunks)
    /\ LET added == add_chunks(app_state.vindex[1], chunks, encodeOK)
       IN /\ Len(added.vindex.chunks) <= MaxVectors
          /\ app_state' = [app_state EXCEPT !.vindex = Some(added.vindex)]
          /\ out' = [op |-> "add_chunks", chunks |-> chunks,
                     encodeOK |-> encodeOK, ok |-> added.ok]

\* one call of VectorIndex.clear
Clear ==
    /\ app_state.vindex # None
    /\ app_state' = [app_state EXCEPT !.vindex = Some(clear(@[1]))]
    /\ out' = [op |-> "clear"]

\* one call of VectorIndex.search; it assigns nothing
Search(query, top_k, encodeOK, I) ==
    /\ app_state.vindex # None
    /\ LET found == search(app_state.vindex[1], query, top_k, encodeOK, I)
       IN out' = [op |-> "search", query |-> query, k |-> top_k,
                  encodeOK |-> encodeOK, results |-> found.results,
                  raised |-> found.raised]
    /\ UNCHANGED app_state

\* one call of query_documents; it assigns nothing in app_state
Query(request, encodeOK, I, hasKey, llmOK, chatOK) ==
    /\ out' = [op |-> "query", request |-> request, encodeOK |-> encodeOK,
               hasKey |-> hasKey, llmOK |-> llmOK,
               response |-> query_documents(app_state, request, encodeOK, I,
                                            hasKey, llmOK, chatOK)]
    /\ UNCHANGED app_state

\* one call of build_prompt on the results of the search that just returned
BuildPrompt(max_ctx_chars) ==
    /\ out.op = "search"
    /\ out.results # <<>>
    /\ out' = [op |-> "build_prompt", contexts |-> out.results,
               max_ctx_chars |-> max_ctx_chars,
               prompt |-> build_prompt(out.query, out.results, max_ctx_chars)]
    /\ UNCHANGED app_state

\* configure requests that carry at most a retrieval count
CountRequests ==
    [chunk_size : {None}, overlap_tokens : {None}, embedding_model : {None},
     retrieval_count : {None, Some(2)}]

\* one call of update_configuration with such a request, and the
\* current_config of its response
SetRetrievalCount(request, hasKey) ==
    /\ UpdateConfiguration(request, TRUE)
    /\ out' = [op |-> "configure", request |-> request,
               status |-> ConfigureStatus(request, TRUE),
               current_config |-> current_config(app_state', hasKey)]

\* the answers faiss can give to a direct search
SearchAnswers(query, top_k) ==
    IF app_state.vindex = None THEN {}
    ELSE FaissAnswers(app_state.vindex[1], query, top_k)

\* the answers faiss can give when the handler searches for the request
QueryAnswers(request) ==
    IF app_state.vindex = None \/ request.mode = "chatgpt" THEN {<<>>}
    ELSE FaissAnswers(app_state.vindex[1], request.question, request.top_k)

RetrievalNext ==
    \/ NewVectorIndex /\ UNCHANGED <<upload, repeat, chunkVars>>
    \/ \E chunks \in SeqsUpTo(Pool, MaxAdded), encodeOK \in BOOLEAN :
        AddChunks(chunks, encodeOK) /\ UNCHANGED <<upload, repeat, chunkVars>>
    \/ Clear /\ UNCHANGED <<upload, repeat, chunkVars>>
    \/ \E query \in Questions, top_k \in KInputs :
        \E I \in SearchAnswers(query, top_k), encodeOK \in BOOLEAN :
            Search(query, top_k, encodeOK, I) /\ UNCHANGED <<upload, repeat, chunkVars>>
    \/ \E request \in QueryRequests :
        \E I \in QueryAnswers(request), encodeOK, hasKey, llmOK, chatOK \in BOOLEAN :
            /\ request.mode = "chatgpt" => encodeOK
            /\ request.mode = "documents" => chatOK
            /\ ~hasKey => llmOK /\ chatOK
            /\ Query(request, encodeOK, I, hasKey, llmOK, chatOK)
            /\ UNCHANGED <<upload, repeat, chunkVars>>
    \/ \E max_ctx_chars \in BudgetInputs :
        BuildPrompt(max_ctx_chars) /\ UNCHANGED <<upload, repeat, chunkVars>>
    \/ \E request \in CountRequests, hasKey \in BOOLEAN :
        SetRetrievalCount(request, hasKey) /\ UNCHANGED chunkVars

SpecRetrieval == Init /\ [][RetrievalNext]_vars

\* ------------------------------------------------------------------------
\* One client at a time: uploads, configure and clear requests sent one
\* after another, with what configure answered
\* ------------------------------------------------------------------------
\* the only client
Client == 1

\* configure requests with chunk sizes below, inside and above the allowed
\* range and overlaps below zero, small and large
WideConfigRequests ==
    [chunk_size : {None, Some(10), Some(200), Some(2000)},
     overlap_tokens : {None, Some(-1), Some(50), Some(600)},
     embedding_model : ModelInputs]

\* one step of the client's upload_files call
ClientUpload ==
    /\ \/ \E files \in Batches, initOK \in BOOLEAN : UploadStart(Client, files, initOK)
       \/ \E doc \in Docs, encodeOK \in BOOLEAN : UploadResume(Client, doc, encodeOK)
       \/ UploadReturn(Client)
    /\ out' = [op |-> "upload"]

\* one call of update_configuration and its response; before is what
\* get_status showed when the request arrived
Configure(request, loadOK) ==
    /\ UpdateConfiguration(request, loadOK)
    /\ out' = [op |-> "configure", request |-> request, loadOK |-> loadOK,
               switches |-> Switches(request),
               status |-> ConfigureStatus(request, loadOK),
               before |-> get_status(app_state)]

\* one call of clear_index; before is what get_status showed when the
\* request arrived
ClientClear ==
    ClearIndex /\ out' = [op |-> "clear", before |-> get_status(app_state)]

ConfigNext ==
    \/ ClientUpload /\ UNCHANGED chunkVars
    \/ \E request \in WideConfigRequests, loadOK \in BOOLEAN :
        Configure(request, loadOK) /\ UNCHANGED chunkVars
    \/ ClientClear /\ UNCHANGED chunkVars

SpecConfig == Init /\ [][ConfigNext]_vars

\* ------------------------------------------------------------------------
\* Claims about the shared state (specification Spec)
\* ------------------------------------------------------------------------
ingested_sources == app_state.ingested_sources

\* the chunks and vectors of the index, empty while there is no index
IndexedChunks == IF app_state.vindex = None THEN <<>> ELSE app_state.vindex[1].chunks

IndexedVectors == IF app_state.vindex = None THEN <<>> ELSE app_state.vindex[1].index

IsPrefix(s, t) == Len(s) <= Len(t) /\ SubSeq(t, 1, Len(s)) = s

\* C1: in every reachable state the index holds as many vectors as chunks,
\* and vector i is the embedding of chunk i's text under the bound model.
C1_VectorsMatchChunks ==
    /\ Len(IndexedVectors) = Len(IndexedChunks)
    /\ \A j \in 1..Len(IndexedChunks) :
        IndexedVectors[j] = Embed(app_state.vindex[1].model_name, IndexedChunks[j].text)

\* an upload has ended without registering its file (its add_chunks failed
\* or was never reached) on an index that holds chunks of an earlier one
C1_Witness ==
    /\ Len(IndexedChunks) >= 2
    /\ \E r \in Requests :
        /\ upload[r].pc = "done"
        /\ upload[r].processed_files = <<>>
        /\ \E f \in Range(upload[r].files) : f \notin Range(ingested_sources)

\* C2 as stated: a second upload of the same files, started after a first
\* upload of them has run to its end with no clear or model switch since,
\* changes neither the index nor the registry and counts zero new chunks.
C2_SecondUploadChangesNothing ==
    [][\A r \in Requests :
        (repeat[r] /\ repeat'[r] /\ upload'[r] # upload[r]) =>
            /\ app_state' = app_state
            /\ upload'[r].total_new_chunks = 0]_vars

\* C2 amended: an upload all of whose files are in ingested_sources when it
\* starts (an earlier upload registered them) runs to its end at once,
\* leaves the index, the chunk sequence and the registry as they were, and
\* reports zero new chunks and no processed file.
C2_RegisteredUploadChangesNothing ==
    [][\A r \in Requests :
        (/\ upload[r].pc = "idle" /\ upload'[r].pc # "idle"
         /\ Range(upload'[r].files) \subseteq Range(ingested_sources)) =>
            /\ app_state' = app_state
            /\ upload'[r].pc = "done"
            /\ upload'[r].total_new_chunks = 0
            /\ upload'[r].processed_files = <<>>]_vars

\* a second upload of registered files has ended, having processed nothing,
\* while the chunks of the first are in the index
C2_Witness ==
    \E r \in Requests :
        /\ upload[r].pc = "done" /\ repeat[r]
        /\ Range(upload[r].files) \subseteq Range(ingested_sources)
        /\ upload[r].processed_files = <<>>
        /\ IndexedChunks # <<>>

\* C3: while an upload is suspended at its await (between the registry
\* check for a file and the append-and-register step for it), no other
\* request changes the index, the registry or the stored chunk settings.
C3_NoChangeDuringUpload ==
    [][\A r \in Requests :
        (upload[r].pc = "reading" /\ upload'[r] = upload[r]) =>
            app_state' = app_state]_vars

\* C4: no source identifier occurs twice in ingested_sources.  The handler
\* appends to ingested_sources exactly when add_chunks has appended the
\* file's chunks (lines 1445-1446), so the number of occurrences of a source
\* is the number of uploads that appended chunks of it.
C4_RegistryHasNoDuplicates ==
    \A i, j \in 1..Len(ingested_sources) :
        i # j => ingested_sources[i] # ingested_sources[j]

\* a step of update_configuration that binds a new embedding model
ModelSwitch ==
    \E request \in ConfigRequests :
        /\ request.embedding_model # None
        /\ request.embedding_model # BoundModel
        /\ UpdateConfiguration(request, TRUE)

\* C5: every registered source has at least one chunk tagged with it in the
\* index; and the registry loses entries only in a clear_index step or a
\* model switch, each of which leaves it empty.
C5_RegistryBackedByIndex ==
    /\ [](\A f \in Range(ingested_sources) :
            \E j \in 1..Len(IndexedChunks) : IndexedChunks[j].metadata.source = f)
    /\ [][~IsPrefix(ingested_sources, ingested_sources') =>
            /\ ingested_sources' = <<>>
            /\ IndexedChunks' = <<>>
            /\ (ClearIndex \/ ModelSwitch)]_vars

\* the files an upload registered are gone from the registry again
C5_Witness ==
    /\ ingested_sources = <<>>
    /\ app_state.vindex # None
    /\ \E r \in Requests :
        upload[r].pc = "done" /\ upload[r].processed_files # <<>>

\* the list `chunks` as line 1215 reads it, before the tiny-chunk filter
PreFilter == FlushStep(loop)

\* the words of the whole input, in order
InputWords == Flatten(text)

\* the last n words of s (all of s when it has fewer), n >= 0
Suffix(s, n) == SubSeq(s, Max(1, Len(s) - n + 1), Len(s))

Words(s) == {s[j] : j \in 1..Len(s)}

\* the hard windows of sentence number kk in a list of chunks, in order
WindowsOf(cs, kk) == SelectSeq(cs, LAMBDA c : c.path = "window" /\ c.sent = kk)

\* ------------------------------------------------------------------------
\* Claims about chunk_text_semantic (specification SpecChunk)
\* ------------------------------------------------------------------------

\* C6: every returned chunk has at most T (the clamped chunk_tokens) words,
\* on the sentence-merge path and on the hard-window path alike.
C6_ChunkSizeBound ==
    pc = "done" => \A j \in 1..Len(result) : Len(result[j].words) <= T

\* C7 as stated: with clamped overlap O > 0, for every two consecutive
\* chunks of the output that both come from the sentence-merge path, the
\* last O words of the earlier equal the first O words of the later.
C7_OverlapInOutput ==
    (pc = "done" /\ O > 0) =>
        \A j \in 1..(Len(result) - 1) :
            (result[j].path = "merge" /\ result[j + 1].path = "merge") =>
                /\ Len(result[j].words) >= O
                /\ Suffix(result[j].words, O) = FirstN(result[j + 1].words, O)

\* C7 amended: with clamped overlap O > 0, for every two chunks adjacent in
\* the list built before the tiny-chunk filter that both come from the
\* sentence-merge path, the last m words of the earlier equal the first m
\* words of the later, where m is the smaller of O and the earlier chunk's
\* word count.
C7_OverlapBeforeFilter ==
    (pc = "done" /\ O > 0) =>
        \A j \in 1..(Len(PreFilter) - 1) :
            (PreFilter[j].path = "merge" /\ PreFilter[j + 1].path = "merge") =>
                LET m == Min(O, Len(PreFilter[j].words))
                IN /\ Len(PreFilter[j + 1].words) > m
                   /\ Suffix(PreFilter[j].words, m) = FirstN(PreFilter[j + 1].words, m)

\* a run with two adjacent merge chunks, one pair with a full overlap and
\* one whose earlier chunk is shorter than the overlap
C7_Witness ==
    /\ pc = "done" /\ O > 0
    /\ \E j \in 1..(Len(PreFilter) - 1) :
        /\ PreFilter[j].path = "merge" /\ PreFilter[j + 1].path = "merge"
        /\ Len(PreFilter[j].words) < O
    /\ \E j \in 1..(Len(PreFilter) - 1) :
        /\ PreFilter[j].path = "merge" /\ PreFilter[j + 1].path = "merge"
        /\ Len(PreFilter[j].words) >= O

\* window number j (from 0) of a sentence, as the claim writes it
ClaimedWindow(words, j) == Slice(words, j * (T - O), j * (T - O) + T)

\* how many of the claimed windows exist and survive the tiny-chunk filter
ClaimedCount(words) ==
    Cardinality({j \in 0..Len(words) :
        /\ j * (T - O) < Len(words)
        /\ Len(ClaimedWindow(words, j)) >= TinyWords})

\* C8, first half: the windows of a long sentence in the output are
\* words[j*(T-O) : j*(T-O)+T] for j = 0, 1, ...
WindowsAsClaimed(kk) ==
    LET W == WindowsOf(result, kk)
    IN /\ Len(W) = ClaimedCount(text[kk])
       /\ \A j \in 1..Len(W) : W[j].words = ClaimedWindow(text[kk], j - 1)

\* C8 as stated: every two consecutive windows of a long sentence in the
\* output share exactly O words, the last O of one being the first O of the
\* next, including the final window.
C8_WindowsShareO ==
    pc = "done" =>
        \A kk \in 1..Len(text) : IsLong(text[kk], T) =>
            LET W == WindowsOf(result, kk)
            IN /\ WindowsAsClaimed(kk)
               /\ \A j \in 1..(Len(W) - 1) :
                    /\ Cardinality(Words(W[j].words) \cap Words(W[j + 1].words)) = O
                    /\ Suffix(W[j].words, O) = FirstN(W[j + 1].words, O)

\* C8 amended: a sentence longer than T is emitted as the windows
\* words[j*(T-O) : j*(T-O)+T], and every two consecutive windows of it in
\* the output share exactly m words, the last m of one being the first m of
\* the next, where m is the smaller of O and the later window's word count
\* (m = O whenever the earlier window is a full window of T words).
C8_WindowsShareMin ==
    pc = "done" =>
        \A kk \in 1..Len(text) : IsLong(text[kk], T) =>
            LET W == WindowsOf(result, kk)
            IN /\ WindowsAsClaimed(kk)
               /\ \A j \in 1..(Len(W) - 1) :
                    LET m == Min(O, Len(W[j + 1].words))
                    IN /\ Cardinality(Words(W[j].words) \cap Words(W[j + 1].words)) = m
                       /\ Suffix(W[j].words, m) = FirstN(W[j + 1].words, m)
                       /\ (Len(W[j].words) = T => m = O)

\* a long sentence cut with O > 0 whose last surviving window is shorter
\* than O
C8_Witness ==
    /\ pc = "done" /\ O > 0
    /\ \E kk \in 1..Len(text) :
        /\ IsLong(text[kk], T)
        /\ LET W == WindowsOf(result, kk)
           IN Len(W) >= 3 /\ Len(W[Len(W)].words) < O

\* C9: no returned chunk has fewer than 5 words, and an empty or
\* whitespace-only input returns the empty list.
C9_NoTinyChunks ==
    pc = "done" =>
        /\ \A j \in 1..Len(Returned) : Len(Returned[j]) >= 5
        /\ (text = <<>> => Returned = <<>>)

\* a run in which the filter dropped a chunk and kept another
C9_Witness ==
    /\ pc = "done" /\ result # <<>>
    /\ \E j \in 1..Len(PreFilter) : Len(PreFilter[j].words) < 5

\* C10: an input of at least 5 and at most T words returns exactly one
\* chunk, whose words are the input's words in their original order.
C10_SingleChunk ==
    (pc = "done" /\ Len(InputWords) >= 5 /\ Len(InputWords) <= T) =>
        Returned = <<InputWords>>

\* three sentences that together fill the budget exactly
C10_Witness ==
    /\ pc = "done" /\ Len(text) = 3 /\ Len(InputWords) = T
    /\ Len(Returned) = 1

\* ------------------------------------------------------------------------
\* VectorIndex.search and add_chunks
\* ------------------------------------------------------------------------
\* the last call was a search with a non-blank query
Searched == out.op = "search" /\ out.query # <<>>

\* positions of the index the last search did not return
NotReturned ==
    {i \in 1..Len(IndexedVectors) : \A j \in 1..Len(out.results) : out.results[j].pos # i}

\* the score the index gives position i for the last query
ScoreOf(i) ==
    Sim(Embed(app_state.vindex[1].model_name, out.query), IndexedVectors[i])

\* every result is a chunk of the index, read from a position of its own
ResultsFromIndex ==
    /\ \A j \in 1..Len(out.results) :
          /\ out.results[j].pos \in 1..Len(IndexedChunks)
          /\ out.results[j].chunk = IndexedChunks[out.results[j].pos]
          /\ out.results[j].score = ScoreOf(out.results[j].pos)
    /\ \A a, b \in 1..Len(out.results) :
          a # b => out.results[a].pos # out.results[b].pos

\* no chunk left out scores higher than a returned one
ResultsAreBest ==
    \A j \in 1..Len(out.results), i \in NotReturned :
        out.results[j].score >= ScoreOf(i)

GivenWithText == SelectSeq(out.chunks, NonBlank)

\* C12: add_chunks is all-or-nothing.  A call given no chunk with non-blank
\* text returns false and changes nothing; a call whose embedding step fails
\* returns false (it does not raise) and leaves vectors and chunks as they
\* were; any other call appends every chunk with non-blank text, in the
\* given order, with one vector each, and returns true.
C12_AllOrNothing ==
    [][out'.op = "add_chunks" =>
        LET given == SelectSeq(out'.chunks, NonBlank)
            before == app_state.vindex[1]
            after == app_state'.vindex[1]
        IN /\ given = <<>> => ~out'.ok /\ after = before
           /\ given # <<>> /\ ~out'.encodeOK =>
                 ~out'.ok /\ after.index = before.index /\ after.chunks = before.chunks
           /\ given # <<>> /\ out'.encodeOK =>
                 /\ out'.ok
                 /\ after.chunks = before.chunks \o given
                 /\ after.index = before.index \o
                       [j \in 1..Len(given) |-> Embed(before.model_name, given[j].text)]
    ]_vars

\* add_chunks returned false on an embedding failure, handed a chunk with
\* text and one without, on an index that already held chunks
C12_Witness ==
    /\ out.op = "add_chunks"
    /\ ~out.ok /\ ~out.encodeOK
    /\ GivenWithText # <<>> /\ GivenWithText # out.chunks
    /\ IndexedChunks # <<>>
    /\ Len(IndexedVectors) = Len(IndexedChunks)

\* C13: search never fails and never changes the index.  A blank query, an
\* empty index or an embedder error each give an empty result list and no
\* exception, and vectors and chunks are after the call what they were
\* before it.
C13_SearchNeverFails ==
    [][out'.op = "search" =>
        /\ ~out'.raised
        /\ app_state'.vindex = app_state.vindex
        /\ (out'.query = <<>> \/ IndexedVectors = <<>> \/ ~out'.encodeOK) =>
              out'.results = <<>>
    ]_vars

\* a search with a non-blank query on an index with chunks met an embedder
\* error and returned the empty list
C13_Witness ==
    /\ Searched
    /\ ~out.encodeOK
    /\ out.k >= 1
    /\ IndexedChunks # <<>>
    /\ out.results = <<>>
    /\ ~out.raised

\* ------------------------------------------------------------------------
\* update_configuration
\* ------------------------------------------------------------------------
\* C14: a configure request that succeeds and names an embedding model other
\* than the bound one leaves an empty index bound to the new model and an
\* empty registry, and get_status then reports zero documents and zero
\* chunks.
C14_SwitchDiscardsAll ==
    [][(out'.op = "configure" /\ out'.status = 200 /\ out'.switches) =>
        /\ app_state'.vindex = Some(NewIndex(out'.request.embedding_model[1]))
        /\ app_state'.vindex[1].index = <<>> /\ app_state'.vindex[1].chunks = <<>>
        /\ app_state'.ingested_sources = <<>>
        /\ get_status(app_state').documents_loaded = 0
        /\ get_status(app_state').chunks_indexed = 0
    ]_vars

\* a successful switch arrived at an index with chunks and a registry with a
\* file, and left both empty under the new model
C14_Witness ==
    /\ out.op = "configure" /\ out.status = 200 /\ out.switches
    /\ out.before.documents_loaded > 0
    /\ out.before.chunks_indexed > 0
    /\ BoundModel = out.request.embedding_model
    /\ IndexedChunks = <<>>
    /\ ingested_sources = <<>>

\* C15: a configure request whose embedding model fails to load ends in an
\* error, and the bound index (its vectors, chunks and model name) and the
\* registry are after it what they were before it.
C15_FailedLoadKeepsIndex ==
    [][(out'.op = "configure" /\ out'.switches /\ ~out'.loadOK) =>
        /\ out'.status = 400
        /\ app_state'.vindex = app_state.vindex
        /\ app_state'.ingested_sources = app_state.ingested_sources
    ]_vars

\* a configure request failed to load its model on an index with chunks and
\* a registry with a file, and both are still there under the old model
C15_Witness ==
    /\ out.op = "configure" /\ out.status = 400
    /\ out.before.documents_loaded > 0
    /\ out.before.chunks_indexed > 0
    /\ BoundModel # out.request.embedding_model
    /\ get_status(app_state).chunks_indexed = out.before.chunks_indexed
    /\ ingested_sources = out.before.loaded_sources

\* C16 as stated: in every state reached by configure requests the stored
\* overlap is at most half the stored chunk size, the stored chunk size is
\* between 50 and 1000, and the stored overlap is not negative.
C16_OverlapAtMostHalf ==
    /\ app_state.overlap * 2 <= app_state.chunk_tokens
    /\ app_state.chunk_tokens >= min_chunk_tokens
    /\ app_state.chunk_tokens <= max_chunk_tokens
    /\ app_state.overlap >= 0

\* ------------------------------------------------------------------------
\* query_documents, build_prompt and generate_answer
\* ------------------------------------------------------------------------
\* the last call was query_documents
Queried == out.op = "query"

\* the search of the last query cannot have returned anything
SearchCameBackEmpty == IndexedChunks = <<>> \/ ~out.encodeOK

\* C17: a query with no index bound fails with the not-ready error whatever
\* its question and mode; a query with an index and a blank question fails
\* with the invalid-input error; a query in documents mode whose search
\* returns nothing succeeds with the fixed no-relevant-documents answer and
\* an empty source list; in none of the three is a completion requested for
\* the documents answer.
C17_QueryErrors ==
    Queried =>
        /\ app_state.vindex = None =>
              /\ out.response.status = 400
              /\ out.response.detail = "No vector index initialized"
              /\ out.response.llm_calls = 0
        /\ (app_state.vindex # None /\ out.request.question = <<>>) =>
              /\ out.response.status = 400
              /\ out.response.detail = "Question cannot be empty"
              /\ out.response.llm_calls = 0
        /\ (/\ app_state.vindex # None
            /\ out.request.question # <<>>
            /\ out.request.mode = "documents"
            /\ SearchCameBackEmpty) =>
              /\ out.response.status = 200
              /\ out.response.documents_answer =
                    Some([kind |-> "no-relevant-documents", body |-> <<>>])
              /\ out.response.sources = Some(<<>>)
              /\ out.response.llm_calls = 0

\* a documents query on an index with chunks, with the LLM reachable, whose
\* search failed in the embedder: fixed answer, no sources, no completion
C17_Witness ==
    /\ Queried
    /\ out.request.mode = "documents" /\ out.request.question # <<>>
    /\ IndexedChunks # <<>>
    /\ ~out.encodeOK /\ out.hasKey /\ out.llmOK
    /\ out.response.status = 200
    /\ out.response.sources = Some(<<>>)
    /\ out.response.llm_calls = 0

\* the characters of the blocks of the first j contexts of the last
\* build_prompt call
RECURSIVE PrefixChars(_)
PrefixChars(j) ==
    IF j = 0 THEN 0
    ELSE PrefixChars(j - 1)
         + BlockChars(Block(out.contexts[j].chunk), out.contexts[j].chunk)

\* C18: build_prompt keeps a prefix of the ranked results in their order:
\* the first block always, a later block only if all blocks before it were
\* kept and the kept blocks with it are no longer than max_ctx_chars in
\* total, nothing after a rejected block, and every kept block whole.
C18_GreedyPrefix ==
    out.op = "build_prompt" =>
        LET kept == out.prompt.blocks
        IN /\ Len(kept) >= 1
           /\ Len(kept) <= Len(out.contexts)
           /\ \A j \in 1..Len(kept) : kept[j] = Block(out.contexts[j].chunk)
           /\ \A j \in 2..Len(kept) : PrefixChars(j) <= out.max_ctx_chars

\* build_prompt was given several results and a budget shorter than the
\* first block, and kept the first block alone, whole
C18_Witness ==
    /\ out.op = "build_prompt"
    /\ Len(out.contexts) >= 2
    /\ PrefixChars(1) > out.max_ctx_chars
    /\ out.prompt.blocks = <<Block(out.contexts[1].chunk)>>

\* the passages the last query returned as sources
ReturnedSources == out.response.sources[1]

\* C19: when no key is set or the completion call fails, a documents query
\* whose search has results still succeeds: its answer is the extractive
\* fallback built from the first min(3, n) of the n ranked passages, in rank
\* order, the failure does not leave the handler, and the completion is
\* requested at most once.
C19_FallbackAnswer ==
    (/\ Queried
     /\ out.request.mode = "documents"
     /\ out.response.searched
     /\ ~SearchCameBackEmpty
     /\ (~out.hasKey \/ ~out.llmOK)) =>
        /\ out.response.status = 200
        /\ ReturnedSources # <<>>
        /\ out.response.documents_answer[1].kind = "fallback"
        /\ LET body == out.response.documents_answer[1].body
           IN /\ Len(body) = Min(3, Len(ReturnedSources))
              /\ \A j \in 1..Len(body) :
                    body[j].snippet = j /\ body[j].text = ReturnedSources[j].text
        /\ out.response.llm_calls = IF out.hasKey THEN 1 ELSE 0

\* a documents query returned four passages, the one completion call
\* failed, and the answer is the fallback from the first three
C19_Witness ==
    /\ Queried
    /\ out.request.mode = "documents"
    /\ out.hasKey /\ ~out.llmOK
    /\ out.response.status = 200
    /\ Len(ReturnedSources) = 4
    /\ out.response.documents_answer[1].kind = "fallback"
    /\ Len(out.response.documents_answer[1].body) = 3
    /\ out.response.llm_calls = 1

\* ------------------------------------------------------------------------
\* upload_files: one file of a batch
\* ------------------------------------------------------------------------
\* the outcome of the step of request r that handles one file, given what
\* the parser made of it and whether the embedder returned
FileStepIsolated(r, doc, encodeOK) ==
    LET u == upload[r]
        filename == u.files[u.i]
        fine_chunks == FineChunks(doc, 1, filename, app_state.chunk_tokens,
                                  app_state.overlap)
        \* the parser failed or found no text, the chunker returned nothing,
        \* or the embedder failed
        failed == doc = <<>> \/ fine_chunks = <<>> \/ ~encodeOK
        grown == SubSeq(app_state'.vindex[1].chunks, Len(IndexedChunks) + 1,
                        Len(app_state'.vindex[1].chunks))
    IN /\ failed =>
             /\ app_state' = app_state
             /\ upload'[r].processed_files = u.processed_files
       /\ ~failed =>
             /\ app_state'.ingested_sources = Append(ingested_sources, filename)
             /\ upload'[r].processed_files = Append(u.processed_files, filename)
             /\ IsPrefix(IndexedChunks, app_state'.vindex[1].chunks)
             /\ grown = fine_chunks
             /\ \A j \in 1..Len(grown) : grown[j].metadata.source = filename
       /\ (filename \in Range(app_state'.ingested_sources)) <=>
             (~failed \/ filename \in Range(ingested_sources))
       \* the loop goes on to the next file that is not registered
       /\ upload'[r].i > u.i
       /\ upload'[r].files = u.files
       /\ upload'[r].pc = IF upload'[r].i > Len(u.files) THEN "done" ELSE "reading"
       /\ \A j \in (u.i + 1)..(upload'[r].i - 1) :
             u.files[j] \in Range(app_state'.ingested_sources)
       /\ upload'[r].pc = "reading" =>
             u.files[upload'[r].i] \notin Range(app_state'.ingested_sources)

\* C20: within one upload batch a file whose parsing, chunking or embedding
\* fails, or that yields no chunks, is skipped: it is not registered and no
\* vector is added; the loop goes on with the other files; a file is
\* registered exactly when its add_chunks call returned true, which is when
\* its chunks entered the index; and the list the response reports grows by
\* exactly the files this request registered.
C20_FailureIsolated ==
    [][\A r \in Requests :
          (upload[r].pc = "reading" /\ upload'[r] # upload[r]) =>
              \A doc \in Docs, encodeOK \in BOOLEAN :
                  UploadResume(r, doc, encodeOK) => FileStepIsolated(r, doc, encodeOK)]_vars

\* a batch of two files has run to its end: the first file failed and is
\* neither registered nor in the index, the second is registered, indexed
\* and the only file the response lists
C20_Witness ==
    \E r \in Requests :
        /\ upload[r].pc = "done"
        /\ Len(upload[r].files) = 2
        /\ upload[r].processed_files = <<upload[r].files[2]>>
        /\ ingested_sources = <<upload[r].files[2]>>
        /\ IndexedChunks # <<>>
        /\ \A j \in 1..Len(IndexedChunks) :
              IndexedChunks[j].metadata.source = upload[r].files[2]

CountConfigured == out.op = "configure" /\ out.request.retrieval_count # None

\* C22 as stated: a configure request that supplies a retrieval count stores
\* it, the configuration it returns shows it, and the query that follows
\* searches with it as k, so it returns no more sources than that count.
C22_RetrievalCountUsed ==
    /\ [](CountConfigured =>
            /\ "retrieval_count" \in DOMAIN out.current_config
            /\ "retrieval_count" \in DOMAIN app_state)
    /\ [][(CountConfigured /\ out'.op = "query" /\ out'.response.sources # None) =>
            Len(out'.response.sources[1]) <= out.request.retrieval_count[1]]_vars

\* ------------------------------------------------------------------------
\* The index over time
\* ------------------------------------------------------------------------
\* C23: the index is append-only except for a full reset.  In every step
\* the stored chunk sequence either is extended at its end (or left alone),
\* or becomes empty in a clear_index step or a successful model switch; no
\* step removes, reorders or rewrites some stored chunks and keeps others.
C23_AppendOnly ==
    [][\/ IsPrefix(IndexedChunks, IndexedChunks')
       \/ /\ app_state'.vindex # None
          /\ app_state'.vindex[1].chunks = <<>>
          /\ ClearIndex \/ ModelSwitch]_vars

\* the index holds chunks of two files, the second file's appended behind
\* the first file's, in the order the registry lists the files
C23_Witness ==
    /\ Len(IndexedChunks) = 2
    /\ Len(ingested_sources) = 2
    /\ IndexedChunks[1].metadata.source = ingested_sources[1]
    /\ IndexedChunks[2].metadata.source = ingested_sources[2]
    /\ ingested_sources[1] # ingested_sources[2]

\* what a search sees.  query_documents and search contain no await, so a
\* search runs from start to end between two steps of the other handlers:
\* the index it reads is the index of one reachable state.
\* every result of every search on the index as it is now refers to a chunk
\* that is in the chunk sequence now
SearchSeesChunks ==
    app_state.vindex # None =>
        \A query \in Questions, top_k \in KInputs :
            \A I \in SearchAnswers(query, top_k) :
                LET found == search(app_state.vindex[1], query, top_k, TRUE, I).results
                IN \A j \in 1..Len(found) :
                      /\ found[j].pos \in 1..Len(IndexedChunks)
                      /\ found[j].chunk = IndexedChunks[found[j].pos]

\* what a step appended to the chunks and to the vectors
GrownChunks ==
    SubSeq(app_state'.vindex[1].chunks, Len(IndexedChunks) + 1,
           Len(app_state'.vindex[1].chunks))

GrownVectors ==
    SubSeq(app_state'.vindex[1].index, Len(IndexedVectors) + 1,
           Len(app_state'.vindex[1].index))

\* the step appended the whole batch of one file being uploaded
WholeBatch ==
    \E r \in Requests :
        /\ upload[r].pc = "reading"
        /\ \E doc \in Docs :
              GrownChunks = FineChunks(doc, 1, upload[r].files[upload[r].i],
                                       app_state.chunk_tokens, app_state.overlap)

\* C24: a search that runs while uploads, clears and reconfigurations are in
\* flight sees a consistent snapshot.  In every state a search can run in,
\* vectors and chunks are equally many and every position a search returns
\* refers to a chunk that is in the chunk sequence; and every step that
\* appends to the index appends one whole add_chunks batch, to vectors and
\* chunks alike, so a search sees a batch entirely or not at all.
C24_ConsistentSnapshot ==
    /\ [](Len(IndexedVectors) = Len(IndexedChunks) /\ SearchSeesChunks)
    /\ [][(app_state'.vindex # None /\ IsPrefix(IndexedChunks, IndexedChunks')
           /\ IndexedChunks' # IndexedChunks) =>
             /\ Len(GrownVectors) = Len(GrownChunks)
             /\ WholeBatch]_vars

\* while one upload is suspended at its await, the index holds the whole
\* two-chunk batch of another file, and a search for two returns both chunks
C24_Witness ==
    /\ \E r \in Requests : upload[r].pc = "reading"
    /\ Len(IndexedChunks) = 2
    /\ IndexedChunks[1].metadata = IndexedChunks[2].metadata
    /\ \E I \in SearchAnswers(<<1, 2>>, 2) :
          Len(search(app_state.vindex[1], <<1, 2>>, 2, TRUE, I).results) = 2

\* ------------------------------------------------------------------------
\* chunk_text_semantic: termination and content
\* ------------------------------------------------------------------------
\* C25: chunk_text_semantic terminates for every input and every pair of
\* integer arguments, negative, zero and oversized ones included: the
\* clamped chunk size is within its range, the clamped overlap is at most
\* half of it, so the stride of the window loop is at least 1, and every
\* call reaches its return.
C25_Terminates ==
    /\ [](/\ T >= min_chunk_tokens /\ T <= max_chunk_tokens
          /\ O >= 0 /\ 2 * O <= T
          /\ T - O >= 1)
    /\ <>(pc = "done")

\* a call with a negative chunk size and an oversized overlap has returned
\* the windows of a sentence longer than the clamped chunk size
C25_Witness ==
    /\ pc = "done"
    /\ chunk_tokens < 0 /\ overlap > max_chunk_tokens
    /\ \E kk \in 1..Len(text) :
          IsLong(text[kk], T) /\ Len(WindowsOf(result, kk)) >= 2

\* ------------------------------------------------------------------------
\* search: equal scores
\* ------------------------------------------------------------------------
\* C26 as stated: results with equal scores come in insertion order.  Of two
\* returned chunks with the same score the one at the lower index position
\* comes first, and a chunk left out never has the score of a returned chunk
\* at a higher position.
C26_TiesByInsertionOrder ==
    Searched =>
        /\ \A a, b \in 1..Len(out.results) :
              (a < b /\ out.results[a].score = out.results[b].score) =>
                  out.results[a].pos < out.results[b].pos
        /\ \A j \in 1..Len(out.results), i \in NotReturned :
              ScoreOf(i) = out.results[j].score => out.results[j].pos < i

\* ------------------------------------------------------------------------
\* update_configuration: a failed request
\* ------------------------------------------------------------------------
\* C27 as stated: a configure request that fails because its embedding model
\* cannot be loaded leaves the whole shared state as it was: the stored
\* chunk size and overlap too, also when the request carried new values for
\* them.
C27_FailedConfigureChangesNothing ==
    [][(out'.op = "configure" /\ out'.status = 400) =>
        /\ app_state'.chunk_tokens = app_state.chunk_tokens
        /\ app_state'.overlap = app_state.overlap
        /\ app_state' = app_state
    ]_vars

\* the words of a list of chunks
WordsIn(cs) == UNION {Words(cs[j].words) : j \in 1..Len(cs)}

\* the words of the input that no returned chunk contains
LostWords == Words(InputWords) \ WordsIn(result)

\* C28: the chunker loses content only through the tiny-chunk filter.  Every
\* word of the input is in at least one chunk of the list built before the
\* filter, the words of each such chunk are in input order, and a word is
\* missing from the returned chunks only if every chunk that held it before
\* the filter had fewer than 5 words.
C28_NoContentLost ==
    pc = "done" =>
        /\ Words(InputWords) \subseteq WordsIn(PreFilter)
        /\ \A j \in 1..Len(PreFilter) :
              \A a, b \in 1..Len(PreFilter[j].words) :
                  a < b => PreFilter[j].words[a] < PreFilter[j].words[b]
        /\ \A w \in LostWords :
              \A j \in 1..Len(PreFilter) :
                  w \in Words(PreFilter[j].words) => Len(PreFilter[j].words) < 5

\* a call has returned after flushing a buffer ahead of a long sentence's
\* windows; the filter dropped words of one chunk and kept other chunks
C28_Witness ==
    /\ pc = "done"
    /\ LostWords # {}
    /\ \E j \in 1..(Len(result) - 1) :
          result[j].path = "merge" /\ result[j + 1].path = "window"

============================================================================
